---- MODULE Spec2Model ----
(***************************************************************************)
(* A model of the YAML Scanner of src/scanner.cpp: the token queue, the    *)
(* indentation stack, the flow level and the simple-key flag, driven by    *)
(* GetNextToken / ScanNextToken over a bounded input.                      *)
(*                                                                         *)
(* The per-token ScanToken<T> specialisations, ValidateSimpleKey and the   *)
(* Exp patterns are not part of src/; they are modelled from spec.md 4.1   *)
(* and are marked so where they are defined.                               *)
(***************************************************************************)
EXTENDS Integers, Sequences, FiniteSets, TLC

\* ------------------------------------------------------------------ bounds

\* Longest input the scanner is run on.
MaxLen == 3
\* Largest column handed to PushIndentTo / PopIndentTo when called directly.
MaxColumn == 2
\* Cap on m_flowLevel when IncreaseFlowLevel is called directly.
MaxFlow == 2
\* Cap on the number of tokens enqueued when the helpers are called directly.
MaxOps == 5
\* Longest run of tokens (before StreamEnd) a Map is parsed from.
MaxTokens == 4

\* ------------------------------------------------------------- characters

EOF == "EOF"

\* The characters inputs are drawn from: one of each class that ScanNextToken
\* tells apart ("a" for the characters of a plain scalar, "@" for those no
\* token starts with).  "." and ">" are left out: ScanNextToken treats "..."
\* as it treats "---", and ">" as it treats "|".
Chars ==
  { " ", "\n", "\t", "-", ":", "?", "a",
    "[", "]", "{", "}", ",", "|", "#", "'", "@" }

\* Every input of at most n characters.
StringsUpTo(n) == UNION { [ 1 .. k -> Chars ] : k \in 0 .. n }

VARIABLES
  INPUT,               \* the characters of the stream (std::istream& INPUT)
  pos,                 \* how many of them have been extracted
  m_line, m_column,
  m_startedStream, m_endedStream,
  m_simpleKeyAllowed,
  m_flowLevel,
  m_indents,           \* std::stack<int>, bottom first
  m_tokens,            \* std::queue<Token*>, front first
  m_limboTokens,       \* std::set<Token*>
  m_simpleKey,         \* the pending simple-key candidate
  nextId,              \* identity of the next token allocated with new
  enqueued,            \* history: ids in the order they were pushed on m_tokens
  enqueuedTypes,       \* history: their types, same order
  returned,            \* history: ids in the order GetNextToken returned them
  deleted,             \* history: ids GetNextToken has deleted
  pc,                  \* "idle", or "GetNextToken" while its loop runs
  call,                \* the method last called, with its arguments
  ret,                 \* what the last finished call gave back
  stream,              \* parser: the tokens the scanner has yet to hand over
  tail,                \* parser: what follows them, "end" or "throw"
  frames,              \* parser: the calls in progress, outermost first
  nodes,               \* parser: every Node allocated with new, by identity
  m_data,              \* parser: Map::m_data of every Map, by identity
  held,                \* parser: tokens a caller of GetNextToken owns
  alloc,               \* parser: tokens allocated so far
  freed,               \* parser: tokens deleted so far
  outcome,             \* parser: how the call of Map::Parse stands
  last                 \* parser: what the last step did

parserVars ==
  << stream, tail, frames, nodes, m_data, held, alloc, freed, outcome, last >>

scannerVars ==
  << INPUT, pos, m_line, m_column, m_startedStream, m_endedStream,
     m_simpleKeyAllowed, m_flowLevel, m_indents, m_tokens, m_limboTokens,
     m_simpleKey, nextId, enqueued, enqueuedTypes, returned, deleted, pc, call, ret >>

vars == << scannerVars, parserVars >>

\* ------------------------------------------------------------------ tokens

\* Token(): both flags set (a Confirmed token).
NewToken(id, type) ==
  [ id |-> id, type |-> type, isPossible |-> TRUE, isValid |-> TRUE ]

NoToken == [ id |-> 0, type |-> "None", isPossible |-> FALSE, isValid |-> FALSE ]

\* The three statuses of spec.md 3, from the two flags GetNextToken reads.
Confirmed(t) == t.isPossible /\ t.isValid
Tentative(t) == t.isPossible /\ ~t.isValid
Retracted(t) == ~t.isPossible

NoKey == [ line |-> 0, ids |-> {} ]

\* The scanner's fields as one record, so that the methods are operators.
\* Three fields are not fields of the scanner and say what a call did: thrown
\* (it threw UnknownToken), ate (the whitespace its whitespace loop ate, each
\* with m_flowLevel and m_simpleKeyAllowed at that moment) and breaks (the
\* line breaks ScanToNextToken ate, each with the scanner it left).
St ==
  [ pos |-> pos, line |-> m_line, column |-> m_column,
    started |-> m_startedStream, ended |-> m_endedStream,
    ska |-> m_simpleKeyAllowed, flow |-> m_flowLevel,
    indents |-> m_indents, tokens |-> m_tokens, limbo |-> m_limboTokens,
    key |-> m_simpleKey, nextId |-> nextId,
    enq |-> enqueued, enqT |-> enqueuedTypes, thrown |-> FALSE,
    ate |-> {}, breaks |-> << >> ]

Commit(s) ==
  /\ pos' = s.pos
  /\ m_line' = s.line
  /\ m_column' = s.column
  /\ m_startedStream' = s.started
  /\ m_endedStream' = s.ended
  /\ m_simpleKeyAllowed' = s.ska
  /\ m_flowLevel' = s.flow
  /\ m_indents' = s.indents
  /\ m_tokens' = s.tokens
  /\ m_limboTokens' = s.limbo
  /\ m_simpleKey' = s.key
  /\ nextId' = s.nextId
  /\ enqueued' = s.enq
  /\ enqueuedTypes' = s.enqT

\* m_tokens.push(t)
Enqueue(s, t) ==
  [ s EXCEPT !.tokens = Append(@, t),
             !.enq = Append(@, t.id),
             !.enqT = Append(@, t.type) ]

\* ------------------------------------------------------------ Misc. helpers

Peek(s) == IF s.pos < Len(INPUT) THEN INPUT[s.pos + 1] ELSE EOF

PeekAt(s, k) == IF s.pos + k < Len(INPUT) THEN INPUT[s.pos + k + 1] ELSE EOF

\* GetChar: the column moves even when get() finds the end of the stream.
GetChar(s) ==
  LET ch == Peek(s)
      q  == [ s EXCEPT !.column = @ + 1,
                       !.pos = IF ch = EOF THEN @ ELSE @ + 1 ]
  IN  IF ch = "\n" THEN [ q EXCEPT !.column = 0, !.line = @ + 1 ] ELSE q

RECURSIVE Eat(_, _)
Eat(s, n) == IF n = 0 THEN s ELSE Eat(GetChar(s), n - 1)

EatLineBreak(s) == [ Eat(s, 1) EXCEPT !.column = 0 ]

IsWhitespaceToBeEaten(s, ch) ==
  \/ ch = " "
  \/ ch = "\t" /\ (s.flow >= 0 \/ ~s.ska)

\* ------------------------------------------------- Exp patterns (from spec)
\* exp.h is not part of src/.  Each pattern looks only at the characters
\* ahead and consumes nothing (spec.md 6, PatternMatcher capability).

IsBlank(ch) == ch \in { " ", "\t" }
IsBreak(ch) == ch = "\n"
IsBlankOrBreakOrEnd(ch) == IsBlank(ch) \/ IsBreak(ch) \/ ch = EOF

ExpBreak(s) == IsBreak(Peek(s))
ExpComment(s) == Peek(s) = "#"
ExpDocStart(s) ==
  /\ Peek(s) = "-" /\ PeekAt(s, 1) = "-" /\ PeekAt(s, 2) = "-"
  /\ IsBlankOrBreakOrEnd(PeekAt(s, 3))
ExpDocEnd(s) ==
  /\ Peek(s) = "." /\ PeekAt(s, 1) = "." /\ PeekAt(s, 2) = "."
  /\ IsBlankOrBreakOrEnd(PeekAt(s, 3))
ExpBlockEntry(s) == Peek(s) = "-" /\ IsBlankOrBreakOrEnd(PeekAt(s, 1))
ExpKey(s) == Peek(s) = "?" /\ IsBlankOrBreakOrEnd(PeekAt(s, 1))
ExpKeyInFlow(s) == Peek(s) = "?" /\ IsBlankOrBreakOrEnd(PeekAt(s, 1))
ExpValue(s) == Peek(s) = ":" /\ IsBlankOrBreakOrEnd(PeekAt(s, 1))
ExpValueInFlow(s) ==
  Peek(s) = ":" /\ (IsBlankOrBreakOrEnd(PeekAt(s, 1)) \/ PeekAt(s, 1) \in { ",", "]", "}" })

\* Characters no plain scalar starts with.
Indicators == { ",", "[", "]", "{", "}", "#", "|", ">", "'", "@" }
FlowIndicators == { ",", "[", "]", "{", "}" }

ExpPlainScalar(s) ==
  /\ ~IsBlankOrBreakOrEnd(Peek(s))
  /\ Peek(s) \notin Indicators
  /\ ~(Peek(s) \in { "-", "?", ":" } /\ IsBlankOrBreakOrEnd(PeekAt(s, 1)))
ExpPlainScalarInFlow(s) ==
  /\ ~IsBlankOrBreakOrEnd(Peek(s))
  /\ Peek(s) \notin Indicators
  /\ ~(Peek(s) \in { "-", "?", ":" } /\ IsBlankOrBreakOrEnd(PeekAt(s, 1)))
  /\ ~(Peek(s) = ":" /\ PeekAt(s, 1) \in FlowIndicators)

\* ------------------------------------------------ the Is... tests of src/

IsDocumentStart(s) == IF s.column # 0 THEN FALSE ELSE ExpDocStart(s)
IsDocumentEnd(s) == IF s.column # 0 THEN FALSE ELSE ExpDocEnd(s)
IsBlockEntry(s) == ExpBlockEntry(s)
IsKey(s) == IF s.flow > 0 THEN ExpKeyInFlow(s) ELSE ExpKey(s)
IsValue(s) == IF s.flow > 0 THEN ExpValueInFlow(s) ELSE ExpValue(s)
IsPlainScalar(s) == IF s.flow > 0 THEN ExpPlainScalarInFlow(s) ELSE ExpPlainScalar(s)

\* ------------------------------------------------------ indentation stack

Top(stack) == stack[Len(stack)]
Pop(stack) == SubSeq(stack, 1, Len(stack) - 1)

\* A plausible slip in PushIndentTo: <= written as <.
PushIndentToMutNotStrict(s, column, sequence) ==
  IF s.flow > 0 THEN s
  ELSE IF column < Top(s.indents) THEN s
  ELSE LET t == NewToken(s.nextId, IF sequence THEN "BlockSeqStart" ELSE "BlockMapStart")
       IN  Enqueue([ s EXCEPT !.indents = Append(@, column), !.nextId = @ + 1 ], t)

\* A plausible slip in PushIndentTo: the flow test left out.
PushIndentToMutInFlow(s, column, sequence) ==
  IF column <= Top(s.indents) THEN s
  ELSE LET t == NewToken(s.nextId, IF sequence THEN "BlockSeqStart" ELSE "BlockMapStart")
       IN  Enqueue([ s EXCEPT !.indents = Append(@, column), !.nextId = @ + 1 ], t)

\* PushIndentTo: the scanner it leaves.  (Its callers run after StreamStart,
\* so the stack it reads is not empty.)
PushIndentTo(s, column, sequence) ==
  IF s.flow > 0 THEN s
  ELSE IF column <= Top(s.indents) THEN s
  ELSE LET t == NewToken(s.nextId, IF sequence THEN "BlockSeqStart" ELSE "BlockMapStart")
       IN  Enqueue([ s EXCEPT !.indents = Append(@, column), !.nextId = @ + 1 ], t)

\* The token PushIndentTo returns: 0, or m_tokens.front() after the push.
PushIndentToReturn(s, column, sequence) ==
  IF s.flow > 0 \/ column <= Top(s.indents) THEN NoToken
  ELSE Head(PushIndentTo(s, column, sequence).tokens)

\* A plausible slip in PopIndentTo: if written for while.
PopIndentToMutOnce(s, column) ==
  IF s.flow > 0 THEN s
  ELSE IF s.indents # <<>> /\ Top(s.indents) > column
  THEN Enqueue([ s EXCEPT !.indents = Pop(@), !.nextId = @ + 1 ],
               NewToken(s.nextId, "BlockEnd"))
  ELSE s

RECURSIVE PopIndentTo(_, _)
PopIndentTo(s, column) ==
  IF s.flow > 0 THEN s
  ELSE IF s.indents # <<>> /\ Top(s.indents) > column
  THEN PopIndentTo(
         Enqueue([ s EXCEPT !.indents = Pop(@), !.nextId = @ + 1 ],
                 NewToken(s.nextId, "BlockEnd")), column)
  ELSE s

\* ------------------------------------------------------------- flow level

IncreaseFlowLevel(s) == [ s EXCEPT !.flow = @ + 1 ]

\* A plausible slip in DecreaseFlowLevel: the test left out.
DecreaseFlowLevelMutNoTest(s) == [ s EXCEPT !.flow = @ - 1 ]

DecreaseFlowLevel(s) == IF s.flow > 0 THEN [ s EXCEPT !.flow = @ - 1 ] ELSE s

\* --------------------------------------------------- simple keys (from spec)
\* simplekey.cpp is not part of src/.  spec.md 4.1: a scalar read where a
\* simple key is allowed proposes a Key (and the BlockMapStart its column
\* opens) as Tentative; ValidateSimpleKey confirms the candidate when a value
\* indicator follows on the same line and retracts it otherwise.

SetFlags(tokens, ids, possible, valid) ==
  [ i \in 1 .. Len(tokens) |->
      IF tokens[i].id \in ids
      THEN [ tokens[i] EXCEPT !.isPossible = possible, !.isValid = valid ]
      ELSE tokens[i] ]

InsertSimpleKey(s) ==
  LET a      == PushIndentTo(s, s.column, FALSE)
      pushed == Len(a.tokens) > Len(s.tokens)
      mapId  == IF pushed THEN { a.tokens[Len(a.tokens)].id } ELSE {}
      b      == Enqueue([ a EXCEPT !.nextId = @ + 1 ], NewToken(a.nextId, "Key"))
      ids    == mapId \cup { a.nextId }
  IN  [ b EXCEPT !.tokens = SetFlags(@, ids, TRUE, FALSE),
                 !.key = [ line |-> s.line, ids |-> ids ] ]

ValidateSimpleKey(s) ==
  IF s.key.ids = {} THEN s
  ELSE LET isValid == IsValue(s) /\ s.line = s.key.line
       IN  [ s EXCEPT !.tokens = SetFlags(@, s.key.ids, isValid, isValid),
                      !.key = NoKey ]

\* ------------------------------------------- ScanToken<T> (from the spec)
\* scantoken.cpp is not part of src/.  spec.md 4.1 step 4 and section 3.

ScanStreamStart(s) ==
  [ s EXCEPT !.started = TRUE, !.ska = TRUE, !.indents = Append(@, -1) ]

ScanStreamEnd(s) ==
  [ PopIndentTo([ s EXCEPT !.column = 0 ], -1) EXCEPT !.ska = FALSE, !.ended = TRUE ]

ScanDocumentMarker(s) == [ Eat(s, 3) EXCEPT !.ska = FALSE ]

ScanFlowStart(s) == Eat(IncreaseFlowLevel(s), 1)

ScanFlowEnd(s) == [ Eat(DecreaseFlowLevel(s), 1) EXCEPT !.ska = FALSE ]

ScanFlowEntry(s) == Eat(s, 1)

ScanBlockEntry(s) ==
  [ Eat(PushIndentTo(s, s.column, TRUE), 1) EXCEPT !.ska = (s.flow = 0) ]

ScanKey(s) ==
  [ Eat(PushIndentTo(s, s.column, FALSE), 1) EXCEPT !.ska = (s.flow = 0) ]

ScanValue(s) == [ Eat(s, 1) EXCEPT !.ska = (s.flow = 0) ]

RECURSIVE EatToQuote(_)
EatToQuote(s) ==
  IF Peek(s) = EOF THEN s
  ELSE IF Peek(s) \in { "'", "\"" } THEN Eat(s, 1)
  ELSE EatToQuote(Eat(s, 1))

ScanQuotedScalar(s) ==
  LET a == IF s.ska THEN InsertSimpleKey(s) ELSE s
  IN  EatToQuote(Eat([ a EXCEPT !.ska = FALSE ], 1))

RECURSIVE EatPlain(_)
EatPlain(s) ==
  IF \/ IsBlankOrBreakOrEnd(Peek(s))
     \/ IsValue(s)
     \/ s.flow > 0 /\ Peek(s) \in FlowIndicators
  THEN s
  ELSE EatPlain(Eat(s, 1))

ScanPlainScalar(s) ==
  LET a == IF s.ska THEN InsertSimpleKey(s) ELSE s
  IN  EatPlain(Eat([ a EXCEPT !.ska = FALSE ], 1))

ScanToken(s, type) ==
  CASE type = "StreamStart"   -> ScanStreamStart(s)
    [] type = "StreamEnd"     -> ScanStreamEnd(s)
    [] type \in { "DocumentStart", "DocumentEnd" } -> ScanDocumentMarker(s)
    [] type \in { "FlowSeqStart", "FlowMapStart" } -> ScanFlowStart(s)
    [] type \in { "FlowSeqEnd", "FlowMapEnd" }     -> ScanFlowEnd(s)
    [] type = "FlowEntry"     -> ScanFlowEntry(s)
    [] type = "BlockEntry"    -> ScanBlockEntry(s)
    [] type = "Key"           -> ScanKey(s)
    [] type = "Value"         -> ScanValue(s)
    [] type = "QuotedScalar"  -> ScanQuotedScalar(s)
    [] type = "PlainScalar"   -> ScanPlainScalar(s)

\* --------------------------------------------------------- ScanAndEnqueue

ScanAndEnqueue(s, type) ==
  LET id == s.nextId
      a  == [ s EXCEPT !.nextId = @ + 1, !.limbo = @ \cup { id } ]
      b  == ScanToken(a, type)
  IN  [ Enqueue(b, NewToken(id, type)) EXCEPT !.limbo = @ \ { id } ]

\* -------------------------------------------------------- ScanToNextToken

RECURSIVE EatWhitespace(_)
EatWhitespace(s) ==
  IF IsWhitespaceToBeEaten(s, Peek(s))
  THEN EatWhitespace(
         [ Eat(s, 1) EXCEPT !.ate = @ \cup { [ ch |-> Peek(s), flow |-> s.flow, ska |-> s.ska ] } ])
  ELSE s

\* while(INPUT && !Exp::Break.Matches(INPUT)) Eat(1): the get() that finds
\* the end of the stream is the one that makes INPUT false.
RECURSIVE EatComment(_)
EatComment(s) ==
  IF ExpBreak(s) THEN s
  ELSE IF Peek(s) = EOF THEN Eat(s, 1)
  ELSE EatComment(Eat(s, 1))

\* What is kept of one eaten line break: the scanner before it (b), after
\* EatLineBreak and ValidateSimpleKey (c), and at the end of the iteration (d).
BreakEaten(b, c, d) ==
  [ flow |-> b.flow, skaBefore |-> b.ska, keyBefore |-> b.key,
    column |-> c.column, key |-> c.key,
    tentative |-> { c.tokens[i].id : i \in { j \in 1 .. Len(c.tokens) : Tentative(c.tokens[j]) } },
    skaAfter |-> d.ska ]

\* A plausible slip in ScanToNextToken: a simple key is allowed after every
\* line break, in flow context too.
RECURSIVE ScanToNextTokenMutNoFlowTest(_)
ScanToNextTokenMutNoFlowTest(s) ==
  LET a == EatWhitespace(s)
      b == IF ExpComment(a) THEN EatComment(a) ELSE a
  IN  IF ~ExpBreak(b) THEN b
      ELSE LET c == ValidateSimpleKey(EatLineBreak(b))
               d == [ c EXCEPT !.ska = TRUE ]
           IN  ScanToNextTokenMutNoFlowTest([ d EXCEPT !.breaks = Append(@, BreakEaten(b, c, d)) ])

RECURSIVE ScanToNextToken(_)
ScanToNextToken(s) ==
  LET a == EatWhitespace(s)
      b == IF ExpComment(a) THEN EatComment(a) ELSE a
  IN  IF ~ExpBreak(b) THEN b
      ELSE LET c == ValidateSimpleKey(EatLineBreak(b))
               d == IF c.flow = 0 THEN [ c EXCEPT !.ska = TRUE ] ELSE c
           IN  ScanToNextToken([ d EXCEPT !.breaks = Append(@, BreakEaten(b, c, d)) ])

\* ----------------------------------------------------------- ScanNextToken

\* The classification of ScanNextToken once it stands at the next token.
Classify(s) ==
  IF Peek(s) = EOF THEN ScanAndEnqueue(s, "StreamEnd")
  ELSE IF IsDocumentStart(s) THEN ScanAndEnqueue(s, "DocumentStart")
  ELSE IF IsDocumentEnd(s) THEN ScanAndEnqueue(s, "DocumentEnd")
  ELSE IF Peek(s) = "[" THEN ScanAndEnqueue(s, "FlowSeqStart")
  ELSE IF Peek(s) = "]" THEN ScanAndEnqueue(s, "FlowSeqEnd")
  ELSE IF Peek(s) = "{" THEN ScanAndEnqueue(s, "FlowMapStart")
  ELSE IF Peek(s) = "}" THEN ScanAndEnqueue(s, "FlowMapEnd")
  ELSE IF Peek(s) = "," THEN ScanAndEnqueue(s, "FlowEntry")
  ELSE IF IsBlockEntry(s) THEN ScanAndEnqueue(s, "BlockEntry")
  ELSE IF IsKey(s) THEN ScanAndEnqueue(s, "Key")
  ELSE IF IsValue(s) THEN ScanAndEnqueue(s, "Value")
  ELSE IF Peek(s) = "|" /\ s.flow = 0 THEN s
  ELSE IF Peek(s) = ">" /\ s.flow = 0 THEN s
  ELSE IF Peek(s) = "'" \/ Peek(s) = "\"" THEN ScanAndEnqueue(s, "QuotedScalar")
  ELSE IF IsPlainScalar(s) THEN ScanAndEnqueue(s, "PlainScalar")
  ELSE [ s EXCEPT !.thrown = TRUE ]

\* A plausible slip in ScanNextToken: the m_endedStream test left out.
ScanNextTokenMutNoEndTest(s) ==
  IF ~s.started THEN ScanAndEnqueue(s, "StreamStart")
  ELSE LET a == ValidateSimpleKey(ScanToNextToken(s))
       IN  Classify(PopIndentTo(a, a.column))

\* A plausible slip in ScanNextToken: the stream is started only after the
\* scanner has moved to the next token.
ScanNextTokenMutLateStart(s) ==
  IF s.ended THEN s
  ELSE LET a == ValidateSimpleKey(ScanToNextToken(s))
       IN  IF ~a.started THEN ScanAndEnqueue(a, "StreamStart")
           ELSE Classify(PopIndentTo(a, a.column))

ScanNextToken(s) ==
  IF s.ended THEN s
  ELSE IF ~s.started THEN ScanAndEnqueue(s, "StreamStart")
  ELSE LET a == ValidateSimpleKey(ScanToNextToken(s))
       IN  Classify(PopIndentTo(a, a.column))

\* ------------------------------------------------------------ construction

\* Scanner::Scanner: the flags false, the counters 0, the containers empty.
InitWith(inputs) ==
  /\ INPUT \in inputs
  /\ pos = 0
  /\ m_line = 0
  /\ m_column = 0
  /\ m_startedStream = FALSE
  /\ m_endedStream = FALSE
  /\ m_simpleKeyAllowed = FALSE
  /\ m_flowLevel = 0
  /\ m_indents = <<>>
  /\ m_tokens = <<>>
  /\ m_limboTokens = {}
  /\ m_simpleKey = NoKey
  /\ nextId = 1
  /\ enqueued = <<>>
  /\ enqueuedTypes = <<>>
  /\ returned = <<>>
  /\ deleted = {}
  /\ pc = "idle"
  /\ call = [ name |-> "Scanner", column |-> 0, sequence |-> FALSE, flow |-> 0 ]
  /\ ret = [ kind |-> "void", tok |-> NoToken ]

\* No Map is being parsed.
NoLast == [ fn |-> "None", at |-> "None", how |-> "None", type |-> "None" ]

NoParse ==
  /\ stream = << >>
  /\ tail = "end"
  /\ frames = << >>
  /\ nodes = << >>
  /\ m_data = << >>
  /\ held = {}
  /\ alloc = {}
  /\ freed = {}
  /\ outcome = "idle"
  /\ last = NoLast

Init == InitWith(StringsUpTo(MaxLen)) /\ NoParse

\* The record of a call: the method, its arguments, m_flowLevel when called.
CalledWith(name, column, sequence) ==
  [ name |-> name, column |-> column, sequence |-> sequence, flow |-> m_flowLevel ]

Called(name) == CalledWith(name, 0, FALSE)

\* ------------------------------------------------------------ GetNextToken
\* One action per way an iteration of its while(1) loop can go.  A call
\* starts at "idle"; pc stays "GetNextToken" while the loop continues.

InGetNextToken == pc \in { "idle", "GetNextToken" }

\* pToken after "and valid": the front token if it is possible and valid.
FrontUsable == m_tokens # <<>> /\ Head(m_tokens).isPossible /\ Head(m_tokens).isValid

\* if(pToken && !pToken->isPossible) { pop; delete; continue; }
GetNextToken_Discard ==
  /\ InGetNextToken
  /\ m_tokens # <<>> /\ ~Head(m_tokens).isPossible
  /\ m_tokens' = Tail(m_tokens)
  /\ deleted' = deleted \cup { Head(m_tokens).id }
  /\ pc' = "GetNextToken"
  /\ call' = Called("GetNextToken")
  /\ ret' = [ kind |-> "running", tok |-> NoToken ]
  /\ UNCHANGED parserVars
  /\ UNCHANGED << INPUT, pos, m_line, m_column, m_startedStream, m_endedStream,
                  m_simpleKeyAllowed, m_flowLevel, m_indents, m_limboTokens,
                  m_simpleKey, nextId, enqueued, enqueuedTypes, returned >>

\* A plausible slip in GetNextToken: a front token that is not valid is
\* stepped over and the first valid token behind it is handed out.
GetNextToken_ReturnMutSkip ==
  /\ InGetNextToken
  /\ \E i \in 1 .. Len(m_tokens) :
       /\ Confirmed(m_tokens[i])
       /\ \A j \in 1 .. i - 1 : Tentative(m_tokens[j])
       /\ m_tokens' = SubSeq(m_tokens, 1, i - 1) \o SubSeq(m_tokens, i + 1, Len(m_tokens))
       /\ returned' = Append(returned, m_tokens[i].id)
       /\ ret' = [ kind |-> "token", tok |-> m_tokens[i] ]
  /\ pc' = "idle"
  /\ call' = Called("GetNextToken")
  /\ UNCHANGED parserVars
  /\ UNCHANGED << INPUT, pos, m_line, m_column, m_startedStream, m_endedStream,
                  m_simpleKeyAllowed, m_flowLevel, m_indents, m_limboTokens,
                  m_simpleKey, nextId, enqueued, enqueuedTypes, deleted >>

\* A plausible slip in GetNextToken: the "and valid" test left out.
GetNextToken_ReturnMutNoValidTest ==
  /\ InGetNextToken
  /\ m_tokens # <<>> /\ Head(m_tokens).isPossible
  /\ m_tokens' = Tail(m_tokens)
  /\ returned' = Append(returned, Head(m_tokens).id)
  /\ pc' = "idle"
  /\ call' = Called("GetNextToken")
  /\ ret' = [ kind |-> "token", tok |-> Head(m_tokens) ]
  /\ UNCHANGED parserVars
  /\ UNCHANGED << INPUT, pos, m_line, m_column, m_startedStream, m_endedStream,
                  m_simpleKeyAllowed, m_flowLevel, m_indents, m_limboTokens,
                  m_simpleKey, nextId, enqueued, enqueuedTypes, deleted >>

\* if(pToken) { pop; return pToken; }
GetNextToken_Return ==
  /\ InGetNextToken
  /\ FrontUsable
  /\ m_tokens' = Tail(m_tokens)
  /\ returned' = Append(returned, Head(m_tokens).id)
  /\ pc' = "idle"
  /\ call' = Called("GetNextToken")
  /\ ret' = [ kind |-> "token", tok |-> Head(m_tokens) ]
  /\ UNCHANGED parserVars
  /\ UNCHANGED << INPUT, pos, m_line, m_column, m_startedStream, m_endedStream,
                  m_simpleKeyAllowed, m_flowLevel, m_indents, m_limboTokens,
                  m_simpleKey, nextId, enqueued, enqueuedTypes, deleted >>

\* No usable front token: neither discarded nor returned.
NoFrontToken ==
  /\ m_tokens # <<>> => Head(m_tokens).isPossible
  /\ ~FrontUsable

\* A plausible slip in GetNextToken: it gives up as soon as there is no
\* usable token, without asking whether the stream has ended.
GetNextToken_EndMutNoEndTest ==
  /\ InGetNextToken
  /\ NoFrontToken
  /\ pc' = "idle"
  /\ call' = Called("GetNextToken")
  /\ ret' = [ kind |-> "null", tok |-> NoToken ]
  /\ UNCHANGED parserVars
  /\ UNCHANGED << INPUT, pos, m_line, m_column, m_startedStream, m_endedStream,
                  m_simpleKeyAllowed, m_flowLevel, m_indents, m_tokens,
                  m_limboTokens, m_simpleKey, nextId, enqueued, enqueuedTypes,
                  returned, deleted >>

\* if(m_endedStream) break; ... return 0;
GetNextToken_End ==
  /\ InGetNextToken
  /\ NoFrontToken
  /\ m_endedStream
  /\ pc' = "idle"
  /\ call' = Called("GetNextToken")
  /\ ret' = [ kind |-> "null", tok |-> NoToken ]
  /\ UNCHANGED parserVars
  /\ UNCHANGED << INPUT, pos, m_line, m_column, m_startedStream, m_endedStream,
                  m_simpleKeyAllowed, m_flowLevel, m_indents, m_tokens,
                  m_limboTokens, m_simpleKey, nextId, enqueued, enqueuedTypes,
                  returned, deleted >>

\* ScanNextToken(); and round the loop again, unless it throws.
GetNextToken_Scan ==
  /\ InGetNextToken
  /\ NoFrontToken
  /\ ~m_endedStream
  /\ LET s == ScanNextToken(St)
     IN  /\ Commit(s)
         /\ pc' = IF s.thrown THEN "idle" ELSE "GetNextToken"
         /\ ret' = [ kind |-> IF s.thrown THEN "throw" ELSE "running", tok |-> NoToken ]
  /\ call' = Called("GetNextToken")
  /\ UNCHANGED parserVars
  /\ UNCHANGED << INPUT, returned, deleted >>

\* ScanNextToken called on its own, between calls of GetNextToken.
ScanNextTokenCall ==
  /\ pc = "idle"
  /\ LET s == ScanNextToken(St)
     IN  /\ Commit(s)
         /\ ret' = [ kind |-> IF s.thrown THEN "throw" ELSE "void", tok |-> NoToken ]
  /\ pc' = "idle"
  /\ call' = Called("ScanNextToken")
  /\ UNCHANGED parserVars
  /\ UNCHANGED << INPUT, returned, deleted >>

Next ==
  \/ GetNextToken_Discard
  \/ GetNextToken_Return
  \/ GetNextToken_End
  \/ GetNextToken_Scan
  \/ ScanNextTokenCall

Spec == Init /\ [][Next]_vars

\* ------------------------------------------- the helpers, called directly
\* PushIndentTo, PopIndentTo, IncreaseFlowLevel and DecreaseFlowLevel applied
\* to the scanner with any arguments, once the stream has started (their
\* callers all run after StreamStart).

PushIndentToCall(column, sequence) ==
  /\ pc = "idle"
  /\ m_startedStream
  /\ Len(enqueued) < MaxOps
  /\ Commit(PushIndentTo(St, column, sequence))
  /\ call' = CalledWith("PushIndentTo", column, sequence)
  /\ ret' = [ kind |-> "token", tok |-> PushIndentToReturn(St, column, sequence) ]
  /\ UNCHANGED parserVars
  /\ UNCHANGED << INPUT, returned, deleted, pc >>

PopIndentToCall(column) ==
  /\ pc = "idle"
  /\ m_startedStream
  /\ Len(enqueued) < MaxOps
  /\ Commit(PopIndentTo(St, column))
  /\ call' = CalledWith("PopIndentTo", column, FALSE)
  /\ ret' = [ kind |-> "void", tok |-> NoToken ]
  /\ UNCHANGED parserVars
  /\ UNCHANGED << INPUT, returned, deleted, pc >>

IncreaseFlowLevelCall ==
  /\ pc = "idle"
  /\ m_startedStream
  /\ m_flowLevel < MaxFlow
  /\ Commit(IncreaseFlowLevel(St))
  /\ call' = Called("IncreaseFlowLevel")
  /\ ret' = [ kind |-> "void", tok |-> NoToken ]
  /\ UNCHANGED parserVars
  /\ UNCHANGED << INPUT, returned, deleted, pc >>

DecreaseFlowLevelCall ==
  /\ pc = "idle"
  /\ m_startedStream
  /\ Commit(DecreaseFlowLevel(St))
  /\ call' = Called("DecreaseFlowLevel")
  /\ ret' = [ kind |-> "void", tok |-> NoToken ]
  /\ UNCHANGED parserVars
  /\ UNCHANGED << INPUT, returned, deleted, pc >>

\* The stream is empty: ScanNextToken starts it (and then ends it).
InitOps == InitWith({ <<>> }) /\ NoParse

NextOps ==
  \/ ScanNextTokenCall
  \/ \E column \in 0 .. MaxColumn, sequence \in BOOLEAN : PushIndentToCall(column, sequence)
  \/ \E column \in -1 .. MaxColumn : PopIndentToCall(column)
  \/ IncreaseFlowLevelCall
  \/ DecreaseFlowLevelCall

SpecOps == InitOps /\ [][NextOps]_vars

\* ================================================================= Map
\* Map::Parse, ParseBlock and ParseFlow (map.cpp, in src/scanner.cpp from line
\* 407) run on the tokens a scanner hands over.  The scanner is taken by its
\* consumer interface (spec.md 6): a stream of tokens, then either nothing
\* (the stream has ended) or UnrecognizedToken (the rest of the input does
\* not scan).

\* The token kinds the Map parser tells apart, and a scalar.
ParserTokens ==
  { "BlockMapStart", "FlowMapStart", "Key", "Value",
    "BlockEnd", "FlowMapEnd", "FlowEntry", "PlainScalar" }

MapStarts == { "BlockMapStart", "FlowMapStart" }
ScalarTypes == { "PlainScalar", "QuotedScalar" }

TypesUpTo(n) == UNION { [ 1 .. k -> ParserTokens ] : k \in 0 .. n }

Count(types, k, set) == Cardinality({ i \in 1 .. k : types[i] \in set })

\* PopIndentTo enqueues a BlockEnd for a level PushIndentTo has pushed only.
Nested(types) ==
  \A k \in 1 .. Len(types) :
    Count(types, k, { "BlockEnd" }) <= Count(types, k, { "BlockMapStart" })

\* The tokens, each with the identity it is allocated with.
Tokens(types) == [ i \in 1 .. Len(types) |-> [ id |-> i, type |-> types[i] ] ]

\* The parser's state as one record, so that its steps are operators.
P ==
  [ stream |-> stream, tail |-> tail, frames |-> frames, nodes |-> nodes,
    data |-> m_data, held |-> held, alloc |-> alloc, freed |-> freed,
    outcome |-> outcome, last |-> last ]

CommitP(p) ==
  /\ stream' = p.stream
  /\ tail' = p.tail
  /\ frames' = p.frames
  /\ nodes' = p.nodes
  /\ m_data' = p.data
  /\ held' = p.held
  /\ alloc' = p.alloc
  /\ freed' = p.freed
  /\ outcome' = p.outcome
  /\ last' = p.last

\* A call in progress: the function, where it stands, the Map (this) or the
\* Node it works on, and its locals pToken, pKey and pValue (0: none).
Frame(fn, at, map, node) ==
  [ fn |-> fn, at |-> at, map |-> map, node |-> node, tok |-> 0, key |-> 0, value |-> 0 ]

\* new Node: nothing instantiated.
NewNode == [ kind |-> "uninstantiated", map |-> 0 ]

\* ------------------------------------- the token consumer interface (spec)
\* PeekNextToken, PopNextToken and EatNextToken are not part of src/.

\* What PeekNextToken meets: a token, nothing, or UnrecognizedToken.
PeekKind(p) ==
  IF p.stream # << >> THEN "token"
  ELSE IF p.tail = "throw" THEN "throw" ELSE "absent"

PeekType(p) == IF p.stream # << >> THEN Head(p.stream).type ELSE "None"

\* PeekNextToken: the front token stays in the scanner's queue.
PeekNextToken(p) ==
  IF p.stream # << >> THEN [ p EXCEPT !.alloc = @ \cup { Head(p.stream).id } ] ELSE p

\* PopNextToken: the front token is removed and discarded.
PopNextToken(p) ==
  IF p.stream # << >>
  THEN [ p EXCEPT !.stream = Tail(@),
                  !.alloc = @ \cup { Head(p.stream).id },
                  !.freed = @ \cup { Head(p.stream).id } ]
  ELSE p

EatNextToken(p) == PopNextToken(p)

\* GetNextToken, by what it hands over (src/scanner.cpp:312-348): the front
\* token leaves the queue and is the caller's.
GetNextTokenFrom(p) ==
  IF p.stream # << >>
  THEN [ p EXCEPT !.stream = Tail(@),
                  !.alloc = @ \cup { Head(p.stream).id },
                  !.held = @ \cup { Head(p.stream).id } ]
  ELSE p

\* --------------------------------------------------------- calls and returns

SetTop(p, f) == [ p EXCEPT !.frames = [ @ EXCEPT ![Len(@)] = f ] ]

Did(p, how, type) ==
  [ p EXCEPT !.last = [ fn |-> Top(frames).fn, at |-> Top(frames).at, how |-> how, type |-> type ] ]

\* The function on top returns to its caller.
Return(p, how, type) ==
  LET fs == Pop(p.frames)
  IN  Did([ p EXCEPT !.frames = fs,
                     !.outcome = IF fs = << >> THEN "returned" ELSE @ ], how, type)

\* UnrecognizedToken leaves the scanner and goes up through every caller:
\* none of them catches it, and none has a destructor that deletes a local.
Throw(p) == Did([ p EXCEPT !.frames = << >>, !.outcome = "UnrecognizedToken" ], "throw", "None")

\* The outcome of reading through a null pointer that ends the program.
Crash(p) == Did([ p EXCEPT !.frames = << >>, !.outcome = "crash" ], "crash", "None")

Push(p, f) == [ p EXCEPT !.frames = Append(@, f) ]

\* ------------------------------------------------------------- Node::Parse
\* node.cpp is not part of src/.  spec.md 4.2: peek the next token; a mapping
\* start makes the Node a Map and parses it, a scalar is stored and consumed;
\* Sequence is not part of src/ either and its tokens are left out.
NodeParse(p) ==
  LET f    == Top(p.frames)
      type == PeekType(p)
      q    == PeekNextToken(p)
      id   == Len(p.data) + 1
  IN  IF PeekKind(p) = "throw" THEN Throw(p)
      ELSE IF PeekKind(p) = "absent" THEN Return(p, "nothing", "None")
      ELSE IF type \in MapStarts
      THEN Did(SetTop([ q EXCEPT !.nodes[f.node] = [ kind |-> "map", map |-> id ],
                                 !.data = Append(@, << >>) ],
                      Frame("Parse", "start", id, 0)), "map", type)
      ELSE IF type \in ScalarTypes
      THEN Return([ PopNextToken(p) EXCEPT !.nodes[f.node].kind = "scalar" ], "scalar", type)
      ELSE Return(q, "nothing", type)

\* -------------------------------------------------------------- Map::Parse

\* What reading pToken->type gives when pToken is null: the program ends, or
\* goes on with whatever the read has produced.
NullReads == { "crash", "BlockMapStart", "FlowMapStart", "FlowEntry", "FlowMapEnd", "Key" }

\* delete pToken; and return.
MapParseDelete(p) ==
  LET f == Top(p.frames)
  IN  Return([ p EXCEPT !.held = @ \ { f.tok },
                        !.freed = @ \cup (IF f.tok = 0 THEN {} ELSE { f.tok }) ],
             "delete", "None")

\* pToken = GetNextToken(); switch(pToken->type): no test that pToken is a token.
MapParse(p, ub) ==
  LET f    == Top(p.frames)
      kind == PeekKind(p)
      type == IF kind = "token" THEN PeekType(p) ELSE ub
      g    == [ f EXCEPT !.at = "delete", !.tok = IF kind = "token" THEN Head(p.stream).id ELSE 0 ]
      q    == SetTop(GetNextTokenFrom(p), g)
  IN  IF kind = "throw" THEN Throw(p)
      ELSE IF kind = "absent" /\ ub = "crash" THEN Crash(p)
      ELSE IF type = "BlockMapStart"
      THEN Did(Push(q, Frame("ParseBlock", "top", f.map, 0)), "dispatch", PeekType(p))
      ELSE IF type = "FlowMapStart"
      THEN Did(Push(q, Frame("ParseFlow", "top", f.map, 0)), "dispatch", PeekType(p))
      ELSE [ MapParseDelete(q) EXCEPT !.last.how = "nomap", !.last.type = PeekType(p) ]

\* --------------------------------------------------------- the two loops

\* A plausible slip: the two Nodes are allocated and the Map is not told.
NewPairMutNoInsert(p, map) ==
  [ p EXCEPT !.nodes = @ \o << NewNode, NewNode >> ]

\* pKey = new Node; pValue = new Node; m_data[pKey] = pValue;
NewPair(p, map) ==
  LET k == Len(p.nodes) + 1
  IN  [ p EXCEPT !.nodes = @ \o << NewNode, NewNode >>,
                 !.data[map] = Append(@, << k, k + 1 >>) ]

\* A plausible slip: any token that follows is taken for the value indicator.
ValueFollowsMutAnyToken(p) == PeekKind(p) = "token"

\* PeekNextToken() && PeekNextToken()->type == TT_VALUE
ValueFollows(p) == PeekKind(p) = "token" /\ PeekType(p) = "Value"

\* The entry of the loop body shared by ParseBlock and ParseFlow, once the Key
\* token has been popped: the pair is inserted, then pKey->Parse is called.
ParseEntry(p, next, type) ==
  LET f == Top(p.frames)
      k == Len(p.nodes) + 1
  IN  Did(Push(SetTop(NewPair(p, f.map), [ f EXCEPT !.at = next, !.key = k, !.value = k + 1 ]),
               Frame("NodeParse", "start", 0, k)), "entry", type)

\* "now grab value (optional)", shared by ParseBlock and ParseFlow.
ParseValue(p, next) ==
  LET f == Top(p.frames)
      g == [ f EXCEPT !.at = next ]
  IN  IF PeekKind(p) = "throw" THEN Throw(p)
      ELSE IF ValueFollows(p)
      THEN Did(Push(SetTop(PopNextToken(p), g), Frame("NodeParse", "start", 0, f.value)),
               "value", PeekType(p))
      ELSE Did(SetTop(PeekNextToken(p), g), "novalue", PeekType(p))

\* ParseBlock, from the top of its loop to pKey->Parse.  pToken->type is
\* read again after PopNextToken has discarded the token: isEnd is what that
\* read makes of pToken->type == TT_BLOCK_END.
ParseBlockLoop(p, isEnd) ==
  LET type == PeekType(p)
  IN  IF PeekKind(p) = "throw" THEN Throw(p)
      ELSE IF PeekKind(p) = "absent" THEN Return(p, "break", "None")
      ELSE IF type # "Key" /\ type # "BlockEnd" THEN Return(PeekNextToken(p), "break", type)
      ELSE IF isEnd THEN Return(PopNextToken(p), "end", type)
      ELSE ParseEntry(PopNextToken(p), "value", type)

ParseBlockValue(p) == ParseValue(p, "top")

\* ParseFlow, from the top of its loop to pKey->Parse.
ParseFlowLoop(p) ==
  LET type == PeekType(p)
  IN  IF PeekKind(p) = "throw" THEN Throw(p)
      ELSE IF PeekKind(p) = "absent" THEN Return(p, "break", "None")
      ELSE IF type = "FlowMapEnd" THEN Return(EatNextToken(p), "end", type)
      ELSE IF type # "Key" THEN Return(PeekNextToken(p), "break", type)
      ELSE ParseEntry(PopNextToken(p), "value", type)

ParseFlowValue(p) == ParseValue(p, "separator")

\* "now eat the separator": pToken = PeekNextToken(); pToken->type is read
\* with no test that pToken is a token.
ParseFlowSeparator(p, ub) ==
  LET f    == Top(p.frames)
      kind == PeekKind(p)
      type == IF kind = "token" THEN PeekType(p) ELSE ub
      g    == [ f EXCEPT !.at = "top" ]
  IN  IF kind = "throw" THEN Throw(p)
      ELSE IF kind = "absent" /\ ub = "crash" THEN Crash(p)
      ELSE IF type = "FlowEntry" THEN Did(SetTop(EatNextToken(p), g), "separator", PeekType(p))
      ELSE IF type = "FlowMapEnd" THEN Did(SetTop(PeekNextToken(p), g), "mapend", PeekType(p))
      ELSE Return(PeekNextToken(p), "break", PeekType(p))

\* Scanner::~Scanner: the tokens still in the queue are deleted.  The token
\* at the front is in the queue when it has been peeked and not popped.
ScannerDestroyed(p) ==
  [ p EXCEPT !.freed = @ \cup { t \in p.alloc : p.stream # << >> /\ t = Head(p.stream).id },
             !.last = [ fn |-> "~Scanner", at |-> "None", how |-> "None", type |-> "None" ] ]

\* ------------------------------------------------------------------ actions

Running(fn, at) == frames # << >> /\ Top(frames).fn = fn /\ Top(frames).at = at

\* A client that owns Map number 1 calls Map::Parse on it.
ParseCall ==
  /\ frames = << >> /\ outcome = "idle"
  /\ CommitP([ P EXCEPT !.frames = << Frame("Parse", "start", 1, 0) >>,
                        !.outcome = "running",
                        !.last = [ fn |-> "Client", at |-> "None", how |-> "call", type |-> "None" ] ])
  /\ UNCHANGED scannerVars

Parse_GetStartToken ==
  /\ Running("Parse", "start")
  /\ \E ub \in NullReads : CommitP(MapParse(P, ub))
  /\ UNCHANGED scannerVars

Parse_DeleteToken ==
  /\ Running("Parse", "delete")
  /\ CommitP(MapParseDelete(P))
  /\ UNCHANGED scannerVars

ParseBlock_Loop ==
  /\ Running("ParseBlock", "top")
  /\ \E isEnd \in BOOLEAN : CommitP(ParseBlockLoop(P, isEnd))
  /\ UNCHANGED scannerVars

ParseBlock_Value ==
  /\ Running("ParseBlock", "value")
  /\ CommitP(ParseBlockValue(P))
  /\ UNCHANGED scannerVars

ParseFlow_Loop ==
  /\ Running("ParseFlow", "top")
  /\ CommitP(ParseFlowLoop(P))
  /\ UNCHANGED scannerVars

ParseFlow_Value ==
  /\ Running("ParseFlow", "value")
  /\ CommitP(ParseFlowValue(P))
  /\ UNCHANGED scannerVars

ParseFlow_Separator ==
  /\ Running("ParseFlow", "separator")
  /\ \E ub \in NullReads : CommitP(ParseFlowSeparator(P, ub))
  /\ UNCHANGED scannerVars

Node_Parse ==
  /\ Running("NodeParse", "start")
  /\ CommitP(NodeParse(P))
  /\ UNCHANGED scannerVars

\* The parse is over, by return or by exception, and the scanner is destroyed.
ScannerDestroy ==
  /\ frames = << >> /\ outcome \in { "returned", "UnrecognizedToken" }
  /\ last.fn # "~Scanner"
  /\ CommitP(ScannerDestroyed(P))
  /\ UNCHANGED scannerVars

\* The streams a scanner hands over: tokens and StreamEnd, then nothing; or
\* tokens, then UnrecognizedToken; or nothing at all, when it has been drained.
InitParse ==
  /\ InitWith({ << >> })
  /\ \E types \in { t \in TypesUpTo(MaxTokens) : Nested(t) }, how \in { "end", "throw", "drained" } :
       /\ how = "drained" => types = << >>
       /\ stream = IF how = "end" THEN Tokens(Append(types, "StreamEnd"))
                   ELSE IF how = "throw" THEN Tokens(types)
                   ELSE << >>
       /\ tail = IF how = "throw" THEN "throw" ELSE "end"
  /\ frames = << >>
  /\ nodes = << >>
  /\ m_data = << << >> >>
  /\ held = {}
  /\ alloc = {}
  /\ freed = {}
  /\ outcome = "idle"
  /\ last = NoLast

NextParse ==
  \/ ParseCall
  \/ Parse_GetStartToken
  \/ Parse_DeleteToken
  \/ ParseBlock_Loop
  \/ ParseBlock_Value
  \/ ParseFlow_Loop
  \/ ParseFlow_Value
  \/ ParseFlow_Separator
  \/ Node_Parse
  \/ ScannerDestroy

SpecParse == InitParse /\ [][NextParse]_vars

\* ================================================================ claims

Last(seq) == seq[Len(seq)]

\* Where in the order of enqueueing the token with this id stands.
EnqPos(id) == CHOOSE i \in 1 .. Len(enqueued) : enqueued[i] = id

TypeOf(id) == enqueuedTypes[EnqPos(id)]

CountEnqueued(types) == Cardinality({ i \in 1 .. Len(enqueuedTypes) : enqueuedTypes[i] \in types })

Ids(tokens) == { tokens[i].id : i \in 1 .. Len(tokens) }

ReturnedTypes == { TypeOf(returned[i]) : i \in 1 .. Len(returned) }

StrictlyIncreasing(stack) == \A i \in 1 .. Len(stack) - 1 : stack[i] < stack[i + 1]

\* ---------------------------------------------------------------------- C1
\* What one step of GetNextToken may do to the queue.
C1_Step ==
  call'.name = "GetNextToken" =>
    /\ ret'.kind = "token" =>
         /\ Confirmed(ret'.tok)
         /\ \E i \in 1 .. Len(m_tokens) :
              /\ m_tokens[i] = ret'.tok
              /\ \A j \in 1 .. i - 1 : ~Confirmed(m_tokens[j])
         /\ ret'.tok.id \notin Ids(m_tokens')
    /\ (m_tokens # <<>> /\ Retracted(Head(m_tokens))) =>
         /\ m_tokens' = Tail(m_tokens)
         /\ Head(m_tokens).id \in deleted'
    /\ \A i \in 1 .. Len(m_tokens) :
         m_tokens[i].id \notin Ids(m_tokens') => ~Tentative(m_tokens[i])

\* C1: in every step of GetNextToken, a token it returns is Confirmed (possible
\* and valid) and is the first Confirmed token of the queue, which it leaves;
\* a Retracted token at the front of the queue is removed and deleted; and no
\* token the step removes from the queue is Tentative.
C1_GetNextTokenStatus == [][C1_Step]_vars

\* GetNextToken has waited on a Tentative front token, deleted it once it was
\* Retracted and returned the Confirmed scalar behind it.
C1_Witness ==
  /\ call.name = "GetNextToken"
  /\ ret.kind = "token" /\ ret.tok.type = "PlainScalar"
  /\ \E id \in deleted : TypeOf(id) = "Key"
  /\ \E i \in 1 .. Len(m_tokens) : Tentative(m_tokens[i])

\* ---------------------------------------------------------------------- C2
\* C2: when GetNextToken has returned nothing, the stream has ended and the
\* token queue is empty.
C2_NullMeansEndAndEmpty ==
  (call.name = "GetNextToken" /\ ret.kind = "null") =>
    (m_endedStream /\ m_tokens = <<>>)

\* GetNextToken returns nothing after it has handed out StreamEnd, on an input
\* that made a simple-key candidate.
C2_Witness ==
  /\ call.name = "GetNextToken" /\ ret.kind = "null"
  /\ "StreamEnd" \in ReturnedTypes
  /\ "Key" \in ReturnedTypes \/ (\E id \in deleted : TypeOf(id) = "Key")

\* ---------------------------------------------------------------------- C3
\* C3: tokens are returned in the order they were enqueued, and no token has
\* been returned while a token enqueued before it is in the queue, Tentative;
\* the BlockSeqStart, BlockMapStart and BlockEnd tokens of PushIndentTo and
\* PopIndentTo included.
C3_FifoOrder ==
  /\ \A i, j \in 1 .. Len(returned) :
       i < j => EnqPos(returned[i]) < EnqPos(returned[j])
  /\ \A i \in 1 .. Len(returned), k \in 1 .. Len(m_tokens) :
       Tentative(m_tokens[k]) => EnqPos(returned[i]) < EnqPos(m_tokens[k].id)

\* A block start has been returned among three tokens or more, and a
\* Tentative token is waiting in the queue.
C3_Witness ==
  /\ ReturnedTypes \cap { "BlockSeqStart", "BlockMapStart" } # {}
  /\ Len(returned) >= 3
  /\ \E k \in 1 .. Len(m_tokens) : Tentative(m_tokens[k])

\* ---------------------------------------------------------------------- C4
\* StreamStart is first and there is one of it.
C4_State ==
  /\ enqueuedTypes # <<>> => enqueuedTypes[1] = "StreamStart"
  /\ (pos > 0 \/ m_column > 0 \/ m_line > 0) => enqueuedTypes # <<>>
  /\ CountEnqueued({ "StreamStart" }) = IF m_startedStream THEN 1 ELSE 0
  /\ enqueuedTypes # <<>> => m_startedStream

\* The call that enqueues the first token enqueues StreamStart alone and
\* consumes nothing.
C4_Step ==
  (enqueuedTypes = <<>> /\ enqueuedTypes' # <<>>) =>
    /\ enqueuedTypes' = << "StreamStart" >>
    /\ pos' = 0 /\ m_column' = 0 /\ m_line' = 0

\* C4: for every input, the empty one included, the first token enqueued is
\* StreamStart, it is enqueued before any character is consumed, and
\* StreamStart is enqueued once and no more.
C4_StreamStartFirstOnce == []C4_State /\ [][C4_Step]_vars

\* Characters have been consumed and tokens enqueued after StreamStart.
C4_Witness ==
  /\ pos >= 2
  /\ Len(enqueuedTypes) >= 3
  /\ enqueuedTypes[1] = "StreamStart"

\* ---------------------------------------------------------------------- C5
\* A call of ScanNextToken after the end changes nothing.
C5_Step ==
  (m_endedStream /\ call'.name = "ScanNextToken") =>
    UNCHANGED << m_tokens, m_indents, m_flowLevel, m_simpleKeyAllowed,
                 pos, m_line, m_column, enqueued, m_endedStream >>

\* C5: a call of ScanNextToken made once the stream has ended changes neither
\* the token queue, the indentation stack, FlowLevel, SimpleKeyAllowed nor the
\* position; and once the stream has ended the last token enqueued is
\* StreamEnd.
C5_NoOpAfterEnd ==
  /\ [](m_endedStream => (enqueuedTypes # <<>> /\ Last(enqueuedTypes) = "StreamEnd"))
  /\ [][C5_Step]_vars

\* ScanNextToken has been called after GetNextToken handed out StreamEnd.
C5_Witness ==
  /\ m_endedStream
  /\ call.name = "ScanNextToken"
  /\ "StreamEnd" \in ReturnedTypes
  /\ pos > 0

\* ---------------------------------------------------------------------- C6
\* C6: once the stream has ended, as many BlockEnd tokens have been enqueued
\* as BlockSeqStart and BlockMapStart tokens together.
C6_IndentBalance ==
  m_endedStream =>
    CountEnqueued({ "BlockEnd" }) = CountEnqueued({ "BlockSeqStart", "BlockMapStart" })

\* ---------------------------------------------------------------------- C7
\* C7 as stated: in every reachable state the indentation stack is not empty,
\* its bottom is the sentinel -1 and it increases strictly from bottom to top.
C7_SentinelAlways ==
  /\ m_indents # <<>>
  /\ m_indents[1] = -1
  /\ StrictlyIncreasing(m_indents)

\* C7 as amended: the stack is empty until the stream is started, and from
\* then on it is not empty, its bottom is the sentinel -1 and it increases
\* strictly from bottom to top.
C7_SentinelOnceStarted ==
  IF m_startedStream
  THEN /\ m_indents # <<>>
       /\ m_indents[1] = -1
       /\ StrictlyIncreasing(m_indents)
  ELSE m_indents = <<>>

\* Two levels were pushed over the sentinel and both have been popped: the
\* sentinel is what is left.
C7_Witness ==
  /\ m_startedStream
  /\ m_indents = << -1 >>
  /\ CountEnqueued({ "BlockSeqStart", "BlockMapStart" }) = 2
  /\ CountEnqueued({ "BlockEnd" }) = 2

\* ---------------------------------------------------------------------- C8
\* What a call of PushIndentTo does to the stack and the queue.
C8_Step ==
  call'.name = "PushIndentTo" =>
    IF m_flowLevel > 0 \/ call'.column <= Top(m_indents)
    THEN m_indents' = m_indents /\ m_tokens' = m_tokens
    ELSE /\ m_indents' = Append(m_indents, call'.column)
         /\ Len(m_tokens') = Len(m_tokens) + 1
         /\ SubSeq(m_tokens', 1, Len(m_tokens)) = m_tokens
         /\ Last(m_tokens').type =
              IF call'.sequence THEN "BlockSeqStart" ELSE "BlockMapStart"
         /\ Last(m_tokens').id \notin Ids(m_tokens)

\* C8: PushIndentTo(column, isSequence) leaves the indentation stack and the
\* token queue as they are when FlowLevel > 0 or column <= the top; otherwise
\* it pushes column and appends one token, BlockSeqStart if isSequence and
\* BlockMapStart if not.
C8_PushIndentToEffect == [][C8_Step]_vars

\* PushIndentTo has pushed a second level, for a mapping, on a queue that
\* held tokens already.
C8_Witness ==
  /\ call.name = "PushIndentTo" /\ ~call.sequence
  /\ Len(m_indents) >= 3 /\ Top(m_indents) = call.column
  /\ Len(m_tokens) >= 2 /\ Last(m_tokens).type = "BlockMapStart"

\* ---------------------------------------------------------------------- C9
\* The levels of the stack that are not above column.
KeptLevels(stack, column) == SelectSeq(stack, LAMBDA x : x <= column)

\* What a call of PopIndentTo does to the stack and the queue.
C9_Step ==
  call'.name = "PopIndentTo" =>
    IF m_flowLevel > 0
    THEN m_indents' = m_indents /\ m_tokens' = m_tokens
    ELSE LET removed == Len(m_indents) - Len(KeptLevels(m_indents, call'.column))
         IN  /\ m_indents' = KeptLevels(m_indents, call'.column)
             /\ m_indents' # <<>> => Top(m_indents') <= call'.column
             /\ Len(m_tokens') = Len(m_tokens) + removed
             /\ SubSeq(m_tokens', 1, Len(m_tokens)) = m_tokens
             /\ \A i \in Len(m_tokens) + 1 .. Len(m_tokens') :
                  m_tokens'[i].type = "BlockEnd"

\* C9: PopIndentTo(column) leaves the indentation stack and the token queue
\* as they are when FlowLevel > 0; otherwise it removes the levels above
\* column and no other, and appends one BlockEnd token for each.
C9_PopIndentToEffect == [][C9_Step]_vars

\* PopIndentTo has removed two levels at once and kept one above the sentinel.
C9_Witness ==
  /\ call.name = "PopIndentTo" /\ call.flow = 0
  /\ Len(m_indents) = 2
  /\ Len(m_tokens) >= 2
  /\ m_tokens[Len(m_tokens)].type = "BlockEnd"
  /\ m_tokens[Len(m_tokens) - 1].type = "BlockEnd"
  /\ CountEnqueued({ "BlockSeqStart", "BlockMapStart" }) = 3
  /\ CountEnqueued({ "BlockEnd" }) = 2

\* --------------------------------------------------------------------- C10
\* What the two calls do to FlowLevel.
C10_Step ==
  /\ call'.name = "IncreaseFlowLevel" => m_flowLevel' = m_flowLevel + 1
  /\ call'.name = "DecreaseFlowLevel" =>
       m_flowLevel' = IF m_flowLevel > 0 THEN m_flowLevel - 1 ELSE 0

\* C10: FlowLevel is never negative; IncreaseFlowLevel adds 1 to it, and
\* DecreaseFlowLevel takes 1 from it when it is positive and leaves it at 0
\* when it is 0.
C10_FlowLevelNotNegative ==
  /\ [](m_flowLevel >= 0)
  /\ [][C10_Step]_vars

\* DecreaseFlowLevel has been called with FlowLevel at 0.
C10_Witness ==
  /\ call.name = "DecreaseFlowLevel"
  /\ call.flow = 0
  /\ m_flowLevel = 0

\* --------------------------------------------------------------------- C20
\* What a call of PushIndentTo gives back.
C20_Step ==
  call'.name = "PushIndentTo" =>
    IF m_flowLevel > 0 \/ call'.column <= Top(m_indents)
    THEN ret'.tok = NoToken
    ELSE /\ ret'.tok = Last(m_tokens')
         /\ ret'.tok.id \notin Ids(m_tokens)
         /\ ret'.tok.type = IF call'.sequence THEN "BlockSeqStart" ELSE "BlockMapStart"

\* C20: when PushIndentTo pushes an indentation, the token it returns is the
\* BlockSeqStart or BlockMapStart token it has just enqueued, whatever the
\* queue held before; when it pushes nothing it returns no token.
C20_PushIndentToReturnsEnqueued == [][C20_Step]_vars

\* --------------------------------------------------------------------- C11
\* The scanner is where ScanNextToken goes on to ScanToNextToken.
Scanning == m_startedStream /\ ~m_endedStream

\* C11: ScanToNextToken eats a tab only when FlowLevel > 0 or SimpleKeyAllowed
\* is false at that moment (in block context with SimpleKeyAllowed true no tab
\* is eaten), and it never stops in front of a space.
C11_TabEating ==
  Scanning =>
    LET r == ScanToNextToken(St)
    IN  /\ \A e \in r.ate : e.ch = "\t" => (e.flow > 0 \/ ~e.ska)
        /\ Peek(r) # " "

\* --------------------------------------------------------------------- C18
\* C18: in ScanToNextToken every line break eaten leaves the column at 0 and
\* no simple key pending (the candidate has been validated: none of its tokens
\* is Tentative any more), and leaves SimpleKeyAllowed true when FlowLevel = 0
\* and as it was when FlowLevel > 0; with FlowLevel > 0 ScanToNextToken returns
\* with SimpleKeyAllowed as it found it.  Where it returns, the scanner stands
\* neither at whitespace it eats, nor at a comment, nor at a line break.
C18_ScanToNextTokenLineBreaks ==
  Scanning =>
    LET r == ScanToNextToken(St)
    IN  /\ \A i \in 1 .. Len(r.breaks) :
             LET e == r.breaks[i]
             IN  /\ e.column = 0
                 /\ e.key = NoKey
                 /\ e.keyBefore.ids \cap e.tentative = {}
                 /\ e.skaAfter = IF e.flow = 0 THEN TRUE ELSE e.skaBefore
        /\ r.line = m_line + Len(r.breaks)
        /\ m_flowLevel > 0 => r.ska = m_simpleKeyAllowed
        /\ ~IsWhitespaceToBeEaten(r, Peek(r))
        /\ ~ExpComment(r)
        /\ ~ExpBreak(r)

\* In flow context, with a simple key pending and no simple key allowed, the
\* scanner stands before a line break: ScanToNextToken eats it, retires the
\* key and leaves SimpleKeyAllowed false.
C18_Witness ==
  /\ Scanning
  /\ m_flowLevel > 0 /\ ~m_simpleKeyAllowed /\ m_simpleKey # NoKey
  /\ LET r == ScanToNextToken(St)
     IN  Len(r.breaks) >= 1 /\ ~r.ska /\ r.key = NoKey /\ r.column = 0

\* --------------------------------------------------------------------- C17
\* ScanNextToken has made progress from the scanner as it stands to s.
Progress(s) == s.thrown \/ Len(s.enq) > Len(enqueued) \/ s.pos > pos

\* GetNextToken is in its loop, about to call ScanNextToken.
AboutToScan == pc = "GetNextToken" /\ NoFrontToken /\ ~m_endedStream

\* An iteration of GetNextToken's loop that calls ScanNextToken before the
\* stream has ended makes progress.
C17_Step ==
  (call'.name = "GetNextToken" /\ ~m_endedStream /\ NoFrontToken) =>
    \/ Len(enqueued') > Len(enqueued)
    \/ pos' > pos
    \/ ret'.kind = "throw"

\* C17: every iteration of GetNextToken's loop that calls ScanNextToken while
\* the stream has not ended enqueues a token, consumes a character or raises,
\* so that no call of GetNextToken goes round its loop for ever.
C17_GetNextTokenTerminates ==
  /\ [](AboutToScan => Progress(ScanNextToken(St)))
  /\ [][C17_Step]_vars

\* ------------------------------------------------------- the Map's claims
At(fn, at) == frames # << >> /\ Top(frames).fn = fn /\ Top(frames).at = at

\* The function on top has returned to its caller, no exception raised.
Returns == Len(frames') < Len(frames) /\ outcome' \in { "running", "returned" }

Pairs(map) == { m_data[map][i] : i \in 1 .. Len(m_data[map]) }

AllPairs == UNION { Pairs(map) : map \in 1 .. Len(m_data) }

Slots ==
  UNION { { << map, i, j >> : i \in 1 .. Len(m_data[map]), j \in 1 .. 2 } : map \in 1 .. Len(m_data) }

\* Where in the Maps Node n stands, as a key (1) or as a value (2).
Occurrences(n) == { s \in Slots : m_data[s[1]][s[2]][s[3]] = n }

\* --------------------------------------------------------------------- C12
\* What ParseBlock does at the top of its loop.
C12_Step ==
  At("ParseBlock", "top") =>
    /\ (PeekKind(P) = "absent" \/ (PeekKind(P) = "token" /\ PeekType(P) \notin { "Key", "BlockEnd" }))
         => outcome' = "MalformedMapping"
    /\ Returns => (PeekType(P) = "BlockEnd" /\ stream' = Tail(stream))

\* C12: ParseBlock fails with MalformedMapping when, at the top of its loop,
\* the next token is absent or is neither Key nor BlockEnd; and it returns
\* only by consuming a BlockEnd token.
C12_ParseBlockMalformed == [][C12_Step]_vars

\* --------------------------------------------------------------------- C13
\* What ParseFlow does at the top of its loop and after an entry.
C13_Step ==
  /\ At("ParseFlow", "top") =>
       /\ (PeekKind(P) = "token" /\ PeekType(P) \notin { "FlowMapEnd", "Key" })
            => outcome' = "MalformedMapping"
       /\ Returns => (PeekType(P) = "FlowMapEnd" /\ stream' = Tail(stream))
  /\ At("ParseFlow", "separator") =>
       /\ (PeekKind(P) = "token" /\ PeekType(P) \notin { "FlowEntry", "FlowMapEnd" })
            => outcome' = "MalformedMapping"
       /\ ~Returns

\* C13: ParseFlow fails with MalformedMapping when the token at the top of
\* its loop is neither FlowMapEnd nor Key, or the token after an entry is
\* neither FlowEntry nor FlowMapEnd; and it returns only by consuming a
\* FlowMapEnd token.
C13_ParseFlowMalformed == [][C13_Step]_vars

\* --------------------------------------------------------------------- C14
\* C14: in every state of a parse, one that an exception has ended included,
\* every Node allocated is the key or the value of one pair of one Map, every
\* pair holds a key Node and a value Node of its own, the pair a call is
\* working on is in its Map, and a Node is in its pair before it is parsed.
C14_Pairing ==
  /\ \A n \in 1 .. Len(nodes) : Cardinality(Occurrences(n)) = 1
  /\ \A pr \in AllPairs :
       pr[1] \in 1 .. Len(nodes) /\ pr[2] \in 1 .. Len(nodes) /\ pr[1] # pr[2]
  /\ \A n \in 1 .. Len(nodes) :
       nodes[n].kind = "map" => nodes[n].map \in 2 .. Len(m_data)
  /\ \A i \in 1 .. Len(frames) :
       /\ frames[i].key # 0 => << frames[i].key, frames[i].value >> \in Pairs(frames[i].map)
       /\ frames[i].fn = "NodeParse" =>
            /\ nodes[frames[i].node].kind = "uninstantiated"
            /\ Occurrences(frames[i].node) # {}

\* UnrecognizedToken was raised while the key of an entry of a nested Map was
\* being parsed: two pairs are in their Maps, the inner one not parsed at all.
C14_Witness ==
  /\ outcome = "UnrecognizedToken"
  /\ Len(nodes) = 4 /\ Len(m_data) = 2
  /\ nodes[1].kind = "map"
  /\ m_data[2] = << << 3, 4 >> >>
  /\ nodes[3].kind = "uninstantiated" /\ nodes[4].kind = "uninstantiated"

\* --------------------------------------------------------------------- C15
IsValueNode(n) == \E pr \in AllPairs : pr[2] = n

\* What ParseBlock and ParseFlow do once the key of an entry has been parsed,
\* and which steps may parse a value Node.
C15_Step ==
  /\ (At("ParseBlock", "value") \/ At("ParseFlow", "value")) =>
       LET f == Top(frames)
       IN  IF PeekKind(P) = "throw"
           THEN outcome' = "UnrecognizedToken" /\ stream' = stream /\ nodes' = nodes
           ELSE IF PeekKind(P) = "token" /\ PeekType(P) = "Value"
           THEN /\ stream' = Tail(stream)
                /\ Len(frames') = Len(frames) + 1
                /\ Top(frames').fn = "NodeParse" /\ Top(frames').node = f.value
           ELSE /\ stream' = stream
                /\ Len(frames') = Len(frames)
                /\ nodes' = nodes
                /\ nodes[f.value].kind = "uninstantiated"
  /\ \A n \in 1 .. Len(nodes) :
       (IsValueNode(n) /\ nodes'[n] # nodes[n]) => (At("NodeParse", "start") /\ Top(frames).node = n)
  /\ (Len(frames') > Len(frames) /\ Top(frames').fn = "NodeParse" /\ Len(nodes') = Len(nodes)) =>
       /\ At("ParseBlock", "value") \/ At("ParseFlow", "value")
       /\ PeekType(P) = "Value"

\* C15: once the key Node of an entry has been parsed, the value Node is
\* parsed when the next token is Value, which is consumed, and only then; when
\* the next token is not Value, or there is none, no token is consumed and the
\* value Node stays uninstantiated.
C15_ValueOnlyAfterValueToken == [][C15_Step]_vars

\* The key of a block entry has been parsed as a scalar and the next token is
\* a Key: it stays in the stream and the value Node is left uninstantiated.
C15_Witness ==
  /\ last.fn = "ParseBlock" /\ last.how = "novalue" /\ last.type = "Key"
  /\ At("ParseBlock", "top")
  /\ nodes[Top(frames).key].kind = "scalar"
  /\ nodes[Top(frames).value].kind = "uninstantiated"
  /\ stream # << >> /\ Head(stream).type = "Key"

\* --------------------------------------------------------------------- C16
\* C16: when a parse has ended with UnrecognizedToken (or MalformedMapping)
\* and the scanner has been destroyed, every token allocated has been deleted;
\* and while the parse runs every token a consumer holds is one a call in
\* progress will delete.
C16_NoLeakOnFailure ==
  /\ (outcome \in { "UnrecognizedToken", "MalformedMapping" } /\ last.fn = "~Scanner")
       => alloc \subseteq freed
  /\ \A t \in held : \E i \in 1 .. Len(frames) : frames[i].fn = "Parse" /\ frames[i].tok = t

\* --------------------------------------------------------------------- C19
\* C19: neither Map::Parse, for its start token, nor ParseFlow, for the token
\* after an entry, reads the kind of a token when there is no token.
C19_NeverUsesAbsentToken ==
  /\ ~(last.fn = "Parse" /\ last.at = "start" /\ last.type = "None" /\ last.how # "throw")
  /\ ~(last.fn = "ParseFlow" /\ last.at = "separator" /\ last.type = "None" /\ last.how # "throw")

====
